---- MODULE Spec2Model ----
(***************************************************************************)
(* Model of src/VulkanLearning/main.cpp (the HelloTriangleApp of lines     *)
(* 548-1557): the bootstrap / teardown sequence of run(), and the pure      *)
(* negotiation functions it calls (device scoring and selection, queue     *)
(* family resolution, swapchain negotiation, extension / layer checks).    *)
(***************************************************************************)
EXTENDS Integers, Sequences, FiniteSets, TLC

(***************************************************************************)
(* Bounds of the model.                                                    *)
(***************************************************************************)
\* longest list of physical devices the driver enumerates
MaxDevices == 3
\* longest list of queue families a device reports
MaxFamilies == 2
\* largest number of images the driver puts in the swapchain
MaxImages == 2
\* longest list of surface formats a device reports
MaxFormats == 3
\* longest list of present modes a device reports
MaxModes == 3
\* longest list of extension or layer names required or supported
MaxNames == 2

(***************************************************************************)
(* Program constants.                                                      *)
(***************************************************************************)
EXIT_SUCCESS == 0
EXIT_FAILURE == 1
DEVICE_NON_SUITABLE_SCORE == 0
WIDTH == 800
HEIGHT == 600

\* VkPhysicalDeviceType: an enumeration, not a bit mask
VK_PHYSICAL_DEVICE_TYPE ==
  [OTHER |-> 0, INTEGRATED_GPU |-> 1, DISCRETE_GPU |-> 2, VIRTUAL_GPU |-> 3, CPU |-> 4]

\* VkQueueFlagBits
VK_QUEUE ==
  [GRAPHICS_BIT |-> 1, COMPUTE_BIT |-> 2, TRANSFER_BIT |-> 4, SPARSE_BINDING_BIT |-> 8]

validationLayers == <<"VK_LAYER_KHRONOS_validation">>
deviceExtensions == <<"VK_KHR_swapchain">>

(***************************************************************************)
(* Helpers: C++ operators on unsigned integers, std::optional, sequences.  *)
(***************************************************************************)
RECURSIVE BitAnd(_, _)
BitAnd(a, b) ==
  IF a = 0 \/ b = 0 THEN 0
  ELSE (IF a % 2 = 1 /\ b % 2 = 1 THEN 1 ELSE 0) + 2 * BitAnd(a \div 2, b \div 2)

RECURSIVE BitXor(_, _)
BitXor(a, b) ==
  IF a = 0 /\ b = 0 THEN 0
  ELSE (IF a % 2 # b % 2 THEN 1 ELSE 0) + 2 * BitXor(a \div 2, b \div 2)

\* std::optional<uint32_t>
nullopt == [has_value |-> FALSE, value |-> 0]
Some(v) == [has_value |-> TRUE, value |-> v]

\* uint32_t: a 32-bit unsigned integer, kept as its two 16-bit halves so that
\* every value up to UINT32_MAX = 2^32 - 1 can be written and compared
HalfWord == 65536
uint32_t(n) == [hi |-> (n \div HalfWord) % HalfWord, lo |-> n % HalfWord]
UINT32_MAX == [hi |-> HalfWord - 1, lo |-> HalfWord - 1]

\* a < b on uint32_t
U32Less(a, b) == a.hi < b.hi \/ (a.hi = b.hi /\ a.lo < b.lo)

\* a + b on uint32_t: the sum modulo 2^32
U32Add(a, b) ==
  [hi |-> (a.hi + b.hi + (a.lo + b.lo) \div HalfWord) % HalfWord,
   lo |-> (a.lo + b.lo) % HalfWord]

\* std::clamp(v, lo, hi), defined when lo <= hi
clamp(v, lo, hi) == IF U32Less(v, lo) THEN lo ELSE IF U32Less(hi, v) THEN hi ELSE v

SeqsUpTo(S, n) == UNION {[1..k -> S] : k \in 0..n}
Range(s) == {s[k] : k \in 1..Len(s)}
Reverse(s) == [k \in 1..Len(s) |-> s[Len(s) + 1 - k]]

(***************************************************************************)
(* Extension / layer validation.                                           *)
(***************************************************************************)
\* variant: names are compared without regard to the case of their letters
cstrEquals_IgnoreCase(str1, str2) ==
  LET lower(str) ==
        CASE str = "VK_KHR_surface" -> "vk_khr_surface"
          [] str = "VK_LAYER_KHRONOS_validation" -> "vk_layer_khronos_validation"
          [] OTHER -> str
  IN  lower(str1) = lower(str2)

\* strcmp(str1, str2) == 0
cstrEquals(str1, str2) == str1 = str2

extensionNamePresentInExtensionVector(extensionName, supportedExtensions) ==
  \E k \in 1..Len(supportedExtensions) : cstrEquals(supportedExtensions[k], extensionName)

layerNamePresentInLayerVector(layerName, supportedLayers) ==
  \E k \in 1..Len(supportedLayers) : cstrEquals(supportedLayers[k], layerName)

checkExtensionSupport(extensions, availableExtensions) ==
  \A k \in 1..Len(extensions) :
    extensionNamePresentInExtensionVector(extensions[k], availableExtensions)

checkValidationLayerSupport(availableLayers) ==
  \A k \in 1..Len(validationLayers) :
    layerNamePresentInLayerVector(validationLayers[k], availableLayers)

(***************************************************************************)
(* Queue family resolution.  A device is the record of what the driver     *)
(* answers about it: deviceType, queueFamilies (each with queueFlags and   *)
(* presentSupport for the surface), extensions, formats, presentModes.     *)
\* variant: the first family holding the capability is returned, exact or not
RECURSIVE findQueueFamilyLoop_FirstContaining(_, _, _, _)
findQueueFamilyLoop_FirstContaining(queueFamilies, capability, i, index) ==
  IF i >= Len(queueFamilies) THEN index
  ELSE IF BitAnd(queueFamilies[i + 1].queueFlags, capability) # 0
       THEN Some(i)
       ELSE findQueueFamilyLoop_FirstContaining(queueFamilies, capability, i + 1, index)

(***************************************************************************)
RECURSIVE findQueueFamilyLoop(_, _, _, _)
findQueueFamilyLoop(queueFamilies, capability, i, index) ==
  IF i >= Len(queueFamilies) THEN index
  ELSE IF BitAnd(queueFamilies[i + 1].queueFlags, capability) # 0
       THEN IF BitXor(queueFamilies[i + 1].queueFlags, capability) = 0
            THEN Some(i)
            ELSE findQueueFamilyLoop(queueFamilies, capability, i + 1, Some(i))
       ELSE findQueueFamilyLoop(queueFamilies, capability, i + 1, index)

findQueueFamilyWithCapability(queueFamilies, capability) ==
  findQueueFamilyLoop(queueFamilies, capability, 0, nullopt)

\* variant: the last family that can present is returned
RECURSIVE findPresentationLoop_Last(_, _)
findPresentationLoop_Last(queueFamilies, i) ==
  IF i >= Len(queueFamilies) THEN nullopt
  ELSE LET later == findPresentationLoop_Last(queueFamilies, i + 1)
       IN  IF later.has_value THEN later
           ELSE IF queueFamilies[i + 1].presentSupport THEN Some(i) ELSE nullopt

RECURSIVE findPresentationLoop(_, _)
findPresentationLoop(queueFamilies, i) ==
  IF i >= Len(queueFamilies) THEN nullopt
  ELSE IF queueFamilies[i + 1].presentSupport THEN Some(i)
       ELSE findPresentationLoop(queueFamilies, i + 1)

findPresentationQueueFamily(device) == findPresentationLoop(device.queueFamilies, 0)

findQueueFamilies(device) ==
  [graphicsFamily      |-> findQueueFamilyWithCapability(device.queueFamilies, VK_QUEUE.GRAPHICS_BIT),
   computeFamily       |-> findQueueFamilyWithCapability(device.queueFamilies, VK_QUEUE.COMPUTE_BIT),
   transferFamily      |-> findQueueFamilyWithCapability(device.queueFamilies, VK_QUEUE.TRANSFER_BIT),
   sparseBindingFamily |-> findQueueFamilyWithCapability(device.queueFamilies, VK_QUEUE.SPARSE_BINDING_BIT),
   presentFamily       |-> findPresentationQueueFamily(device)]

NoQueueFamilyIndices ==
  [graphicsFamily |-> nullopt, computeFamily |-> nullopt, transferFamily |-> nullopt,
   sparseBindingFamily |-> nullopt, presentFamily |-> nullopt]

(***************************************************************************)
(* Device scoring and selection.                                           *)
(***************************************************************************)
getSupportedDeviceExtensions(device) == device.extensions

querySwapChainSupport(device) ==
  [formats |-> device.formats, presentModes |-> device.presentModes]

\* variant: the queue families of the device are not looked at
isDeviceSuitable_NoQueueFamilyCheck(device) ==
  LET extensionsSupported ==
        checkExtensionSupport(deviceExtensions, getSupportedDeviceExtensions(device))
      details == querySwapChainSupport(device)
      swapChainAdequate == details.formats # <<>> /\ details.presentModes # <<>>
  IN  /\ extensionsSupported
      /\ swapChainAdequate

\* variant: the formats and present modes are not looked at
isDeviceSuitable_NoSwapChainCheck(device) ==
  LET extensionsSupported ==
        checkExtensionSupport(deviceExtensions, getSupportedDeviceExtensions(device))
      queueFamilies == findQueueFamilies(device)
  IN  /\ queueFamilies.graphicsFamily.has_value
      /\ queueFamilies.presentFamily.has_value
      /\ extensionsSupported

isDeviceSuitable(device) ==
  LET extensionsSupported ==
        checkExtensionSupport(deviceExtensions, getSupportedDeviceExtensions(device))
      details == querySwapChainSupport(device)
      swapChainAdequate ==
        IF extensionsSupported
        THEN ~(details.formats = <<>> \/ details.presentModes = <<>>)
        ELSE FALSE
      queueFamilies == findQueueFamilies(device)
  IN  /\ queueFamilies.graphicsFamily.has_value
      /\ queueFamilies.presentFamily.has_value
      /\ extensionsSupported
      /\ swapChainAdequate

calculatePhysicalDeviceScore(device) ==
  IF ~isDeviceSuitable(device) THEN DEVICE_NON_SUITABLE_SCORE
  ELSE LET score == DEVICE_NON_SUITABLE_SCORE + 1
       IN  IF BitAnd(device.deviceType, VK_PHYSICAL_DEVICE_TYPE.DISCRETE_GPU) # 0
           THEN score + 1000
           ELSE score

\* variant: a candidate that only equals the highest score replaces the best one
RECURSIVE pickLoop_LastWins(_, _, _, _)
pickLoop_LastWins(physicalDevices, i, highest_score, best_device_idx) ==
  IF i >= Len(physicalDevices) THEN <<highest_score, best_device_idx>>
  ELSE LET score == calculatePhysicalDeviceScore(physicalDevices[i + 1])
       IN  IF score >= highest_score
           THEN pickLoop_LastWins(physicalDevices, i + 1, score, i)
           ELSE pickLoop_LastWins(physicalDevices, i + 1, highest_score, best_device_idx)

\* the loop of pickPhysicalDeviceWithHighestScore: <<highest_score, best_device_idx>>
RECURSIVE pickLoop(_, _, _, _)
pickLoop(physicalDevices, i, highest_score, best_device_idx) ==
  IF i >= Len(physicalDevices) THEN <<highest_score, best_device_idx>>
  ELSE LET score == calculatePhysicalDeviceScore(physicalDevices[i + 1])
       IN  IF score > highest_score
           THEN pickLoop(physicalDevices, i + 1, score, i)
           ELSE pickLoop(physicalDevices, i + 1, highest_score, best_device_idx)

\* the outcome of a call: a returned value or a thrown std::runtime_error
Returned(v) == [thrown |-> FALSE, what |-> "", value |-> v]
Thrown(msg) == [thrown |-> TRUE, what |-> msg, value |-> 0]

\* variant: the best index is returned without testing the highest score
pickPhysicalDeviceWithHighestScore_NoCheck(physicalDevices) ==
  Returned(pickLoop(physicalDevices, 0, DEVICE_NON_SUITABLE_SCORE, 0)[2])

\* returns the index (from 0) of the chosen element of physicalDevices
pickPhysicalDeviceWithHighestScore(physicalDevices) ==
  LET r == pickLoop(physicalDevices, 0, DEVICE_NON_SUITABLE_SCORE, 0)
  IN  IF r[1] = DEVICE_NON_SUITABLE_SCORE
      THEN Thrown("no suitable gpu found")
      ELSE Returned(r[2])

\* findPhysicalDevices followed by pickPhysicalDeviceWithHighestScore
pickPhysicalDevice(enumerated) ==
  IF Len(enumerated) = 0
  THEN Thrown("failed to find gpu supporting vulkan")
  ELSE pickPhysicalDeviceWithHighestScore(enumerated)

(***************************************************************************)
(* Swapchain negotiation.                                                   *)
(***************************************************************************)
\* variant: the first available format is returned whatever the list holds
chooseSwapSurfaceFormat_FirstEntry(availableFormats) == availableFormats[1]

\* availableFormats is not empty: the device passed isDeviceSuitable
chooseSwapSurfaceFormat(availableFormats) ==
  LET wanted == {k \in 1..Len(availableFormats) :
                   /\ availableFormats[k].format = "VK_FORMAT_B8G8R8_UNORM"
                   /\ availableFormats[k].colorSpace = "VK_COLOR_SPACE_SRGB_NONLINEAR_KHR"}
  IN  IF wanted # {}
      THEN availableFormats[CHOOSE k \in wanted : \A j \in wanted : k <= j]
      ELSE availableFormats[1]

\* variant: only the first available present mode is looked at
chooseSwapPresentMode_FirstOnly(availablePresentModes) ==
  IF /\ Len(availablePresentModes) > 0
     /\ availablePresentModes[1] = "VK_PRESENT_MODE_MAILBOX_KHR"
  THEN "VK_PRESENT_MODE_MAILBOX_KHR"
  ELSE "VK_PRESENT_MODE_FIFO_KHR"

chooseSwapPresentMode(availablePresentModes) ==
  IF \E k \in 1..Len(availablePresentModes) :
       availablePresentModes[k] = "VK_PRESENT_MODE_MAILBOX_KHR"
  THEN "VK_PRESENT_MODE_MAILBOX_KHR"
  ELSE "VK_PRESENT_MODE_FIFO_KHR"

\* variant: the requested size is returned without clamping
chooseSwapExtent_Unclamped(capabilities) ==
  IF capabilities.currentExtent.width = UINT32_MAX
  THEN [width |-> uint32_t(WIDTH), height |-> uint32_t(HEIGHT)]
  ELSE capabilities.currentExtent

chooseSwapExtent(capabilities) ==
  IF capabilities.currentExtent.width = UINT32_MAX
  THEN [width  |-> clamp(uint32_t(WIDTH), capabilities.minImageExtent.width,
                         capabilities.maxImageExtent.width),
        height |-> clamp(uint32_t(HEIGHT), capabilities.minImageExtent.height,
                         capabilities.maxImageExtent.height)]
  ELSE capabilities.currentExtent

\* the value createSwapChain gives createInfo.minImageCount
swapChainImageCount(capabilities) ==
  LET count == U32Add(capabilities.minImageCount, uint32_t(1))
  IN  IF /\ capabilities.maxImageCount # uint32_t(0)
         /\ U32Less(capabilities.maxImageCount, count)
      THEN capabilities.maxImageCount
      ELSE count

(***************************************************************************)
(* The environment: what the driver and the window system may answer.      *)
(***************************************************************************)
GeneralPurposeFlags ==
  VK_QUEUE.GRAPHICS_BIT + VK_QUEUE.COMPUTE_BIT + VK_QUEUE.TRANSFER_BIT

QueueFlagChoices == {VK_QUEUE.GRAPHICS_BIT, VK_QUEUE.TRANSFER_BIT, GeneralPurposeFlags}

QueueFamilyChoices ==
  {[queueFlags |-> f, presentSupport |-> p] : f \in QueueFlagChoices, p \in BOOLEAN}

DeviceTypeChoices ==
  {VK_PHYSICAL_DEVICE_TYPE.OTHER, VK_PHYSICAL_DEVICE_TYPE.INTEGRATED_GPU,
   VK_PHYSICAL_DEVICE_TYPE.DISCRETE_GPU, VK_PHYSICAL_DEVICE_TYPE.VIRTUAL_GPU,
   VK_PHYSICAL_DEVICE_TYPE.CPU}

DeviceExtensionChoices == {<<>>, <<"VK_KHR_swapchain">>}

FormatListChoices ==
  {<<>>, <<[format |-> "VK_FORMAT_B8G8R8A8_SRGB", colorSpace |-> "VK_COLOR_SPACE_SRGB_NONLINEAR_KHR"]>>}

PresentModeListChoices == {<<>>, <<"VK_PRESENT_MODE_FIFO_KHR">>}

\* every single device over the choices above
ScoreCandidates ==
  [deviceType : DeviceTypeChoices,
   queueFamilies : SeqsUpTo(QueueFamilyChoices, MaxFamilies),
   extensions : DeviceExtensionChoices,
   formats : FormatListChoices,
   presentModes : PresentModeListChoices]

\* the devices that make up the longer lists: one general-purpose family that
\* can or cannot present, with or without the swapchain extension
SelectCandidates ==
  {d \in ScoreCandidates :
     /\ Len(d.queueFamilies) = 1
     /\ d.queueFamilies[1].queueFlags = GeneralPurposeFlags
     /\ d.formats # <<>>
     /\ d.presentModes # <<>>}

DeviceLists ==
  SeqsUpTo(SelectCandidates, MaxDevices) \cup {<<d>> : d \in ScoreCandidates}

NoDevice ==
  [deviceType |-> VK_PHYSICAL_DEVICE_TYPE.OTHER, queueFamilies |-> <<>>,
   extensions |-> <<>>, formats |-> <<>>, presentModes |-> <<>>]

glfwGetRequiredInstanceExtensions == <<"VK_KHR_surface", "VK_KHR_win32_surface">>

InstanceExtensionLists ==
  {<<>>,
   <<"VK_KHR_surface">>,
   <<"VK_KHR_surface", "VK_KHR_win32_surface">>,
   <<"VK_KHR_win32_surface", "VK_EXT_debug_utils">>,
   <<"VK_EXT_debug_utils", "VK_KHR_win32_surface", "VK_KHR_surface">>}

InstanceLayerLists ==
  {<<>>, <<"VK_LAYER_LUNARG_api_dump">>,
   <<"VK_LAYER_LUNARG_api_dump", "VK_LAYER_KHRONOS_validation">>}

(***************************************************************************)
(* State.                                                                  *)
(***************************************************************************)
VARIABLES
  enableValidationLayers, \* IS_DEBUG_BUILD, fixed by the build
  pc,                     \* the statement about to execute
  i,                      \* index of the loop in progress
  alive,                  \* driver and window objects created and not destroyed
  calls,                  \* create / destroy calls issued so far, in order
  stages,                 \* statements executed so far, in order
  physicalDevice,
  queueFamilyIndices,
  queueCreateInfos,       \* what createLogicalDevice asked of vkCreateDevice
  swapChainImages,
  swapChainImageViews,
  framebuffers,
  error,                  \* what() of the exception in flight
  failed,                 \* the statement that threw
  exitStatus,             \* value returned by main, -1 while running
  mainLoopEntered,
  cleanupCalls,           \* number of invocations of cleanup()
  physicalDevices,        \* device selection on its own: the enumerated list
  scores,                 \* ... the score computed for each of its elements
  picked,                 \* ... and the outcome of pickPhysicalDevice
  call,                   \* a function called on its own: its name and arguments
  returned,               \* ... and what it returned
  instanceCheckFailed,    \* createInstance() found a required name unsupported
  swapChainCreateInfo     \* what createSwapChain() asked of vkCreateSwapchainKHR

objVars == <<alive, calls>>
dataVars ==
  <<physicalDevice, queueFamilyIndices, queueCreateInfos, swapChainImages,
    swapChainImageViews, framebuffers>>
ctlVars == <<pc, i, stages, error, failed, exitStatus, mainLoopEntered, cleanupCalls>>
selVars == <<physicalDevices, scores, picked>>
callVars == <<call, returned>>
infoVars == <<instanceCheckFailed, swapChainCreateInfo>>
vars == <<enableValidationLayers, objVars, dataVars, ctlVars, selVars, callVars, infoVars>>

Obj(kind, idx) == [kind |-> kind, idx |-> idx]
NULL_HANDLE == Obj("VK_NULL_HANDLE", 0)
NotPicked == [thrown |-> FALSE, what |-> "pending", value |-> 0]
NotCalled == [fn |-> "none"]
NotReturned == [thrown |-> FALSE, what |-> "pending", value |-> 0]
HasReturned == returned.what # "pending"
NoCreateInfo == [imageSharingMode |-> "unset"]

(***************************************************************************)
(* The statements of run() and of the functions it calls, in source order. *)
(* A statement that is itself a call of a function modelled statement by   *)
(* statement is followed by that function's body.                          *)
(***************************************************************************)
runBody == <<"initWindow", "initVulkan", "mainLoop", "cleanup">>

\* variant: the render pass and the pipeline are created before the swapchain
initVulkanBody_RenderPassFirst ==
  <<"loadGlobalFunctions", "createInstance", "loadInstanceFunctions",
    "setupDebugMessenger", "createSurface", "pickPhysicalDevice",
    "cacheQueueFamilyIndices", "createLogicalDevice", "retrieveQueueHandles",
    "loadDeviceFunctions", "createRenderPass", "createGraphicsPipeline",
    "createSwapChain", "retrieveSwapChainImageHandles",
    "createSwapChainImageViews", "createFramebuffers">>

\* variant: the surface is created before the debug messenger is set up
initVulkanBody_SurfaceFirst ==
  <<"loadGlobalFunctions", "createInstance", "loadInstanceFunctions",
    "createSurface", "setupDebugMessenger", "pickPhysicalDevice",
    "cacheQueueFamilyIndices", "createLogicalDevice", "retrieveQueueHandles",
    "loadDeviceFunctions", "createSwapChain", "retrieveSwapChainImageHandles",
    "createSwapChainImageViews", "createRenderPass", "createGraphicsPipeline",
    "createFramebuffers">>

initVulkanBody ==
  <<"loadGlobalFunctions", "createInstance", "loadInstanceFunctions",
    "setupDebugMessenger", "createSurface", "pickPhysicalDevice",
    "cacheQueueFamilyIndices", "createLogicalDevice", "retrieveQueueHandles",
    "loadDeviceFunctions", "createSwapChain", "retrieveSwapChainImageHandles",
    "createSwapChainImageViews", "createRenderPass", "createGraphicsPipeline",
    "createFramebuffers">>

createGraphicsPipelineBody ==
  <<"readFile_vert", "createShaderModule_vert",
    "readFile_frag", "createShaderModule_frag",
    "createPipelineLayout", "vkCreateGraphicsPipelines",
    "vkDestroyShaderModule_vert", "vkDestroyShaderModule_frag">>

\* variant: the failure block raises the error without destroying the modules
pipelineFailureBody_NoDestroy == <<"failed_throw">>

\* the block taken when vkCreateGraphicsPipelines fails
pipelineFailureBody ==
  <<"failed_vkDestroyShaderModule_vert", "failed_vkDestroyShaderModule_frag",
    "failed_throw">>

\* variant: the pipeline layout is destroyed before the pipeline
cleanupBody_LayoutFirst ==
  <<"vkDestroyFramebuffer", "vkDestroyPipelineLayout", "vkDestroyPipeline",
    "vkDestroyRenderPass", "vkDestroyImageView", "vkDestroySwapchainKHR",
    "vkDestroyDevice", "vkDestroyDebugUtilsMessengerEXT", "vkDestroySurfaceKHR",
    "vkDestroyInstance", "glfwDestroyWindow">>

\* variant: the logical device is destroyed before the swapchain
cleanupBody_DeviceFirst ==
  <<"vkDestroyFramebuffer", "vkDestroyPipeline", "vkDestroyPipelineLayout",
    "vkDestroyRenderPass", "vkDestroyImageView", "vkDestroyDevice",
    "vkDestroySwapchainKHR", "vkDestroyDebugUtilsMessengerEXT", "vkDestroySurfaceKHR",
    "vkDestroyInstance", "glfwDestroyWindow">>

cleanupBody ==
  <<"vkDestroyFramebuffer", "vkDestroyPipeline", "vkDestroyPipelineLayout",
    "vkDestroyRenderPass", "vkDestroyImageView", "vkDestroySwapchainKHR",
    "vkDestroyDevice", "vkDestroyDebugUtilsMessengerEXT", "vkDestroySurfaceKHR",
    "vkDestroyInstance", "glfwDestroyWindow">>

Body(s) ==
  CASE s = "run" -> runBody
    [] s = "initVulkan" -> initVulkanBody
    [] s = "createGraphicsPipeline" -> createGraphicsPipelineBody
    [] s = "cleanup" -> cleanupBody
    [] OTHER -> <<>>

RECURSIVE Flatten(_)
Flatten(stmts) ==
  IF stmts = <<>> THEN <<>>
  ELSE <<Head(stmts)>> \o Flatten(Body(Head(stmts))) \o Flatten(Tail(stmts))

\* main: try { app->run(); } ... return EXIT_SUCCESS;
Program == Flatten(<<"run">>) \o <<"return">>

IndexOf(seq, s) == CHOOSE k \in 1..Len(seq) : seq[k] = s

Succ(s) ==
  IF s \in Range(pipelineFailureBody)
  THEN pipelineFailureBody[IndexOf(pipelineFailureBody, s) + 1]
  ELSE Program[IndexOf(Program, s) + 1]

(***************************************************************************)
(* Building blocks of the actions.                                         *)
(***************************************************************************)
miscVars == <<i, mainLoopEntered, cleanupCalls>>

\* statement s completes and control passes to the next statement
Advance(s) ==
  /\ pc' = Succ(s)
  /\ stages' = Append(stages, s)
  /\ UNCHANGED <<error, failed, exitStatus>>

\* variant: the failure is recorded but the next statement is executed
Throw_Continue(s, msg) ==
  /\ pc' = IF s \in Range(Program) THEN Succ(s) ELSE "catch"
  /\ stages' = Append(stages, s)
  /\ error' = msg
  /\ failed' = s
  /\ UNCHANGED exitStatus

\* statement s throws std::runtime_error(msg): control passes to main's handler
Throw(s, msg) ==
  /\ pc' = "catch"
  /\ stages' = Append(stages, s)
  /\ error' = msg
  /\ failed' = s
  /\ UNCHANGED exitStatus

Create(o) ==
  /\ alive' = alive \cup {o}
  /\ calls' = Append(calls, [op |-> "create", obj |-> o])

Destroy(o) ==
  /\ alive' = alive \ {o}
  /\ calls' = Append(calls, [op |-> "destroy", obj |-> o])

\* a statement made of one driver creation call whose result is checked
CreateOrThrow(s, o, msg) ==
  /\ pc = s
  /\ \E ok \in BOOLEAN :
       IF ok THEN Create(o) /\ Advance(s)
             ELSE Throw(s, msg) /\ UNCHANGED objVars
  /\ UNCHANGED <<enableValidationLayers, dataVars, miscVars, selVars, callVars, infoVars>>

\* a statement of cleanup() made of one destroy call
DestroyOne(s, o) ==
  /\ pc = s
  /\ Destroy(o)
  /\ Advance(s)
  /\ UNCHANGED <<enableValidationLayers, dataVars, miscVars, selVars, callVars, infoVars>>

\* a statement that creates and destroys nothing and cannot fail
Plain(s) ==
  /\ pc = s
  /\ Advance(s)
  /\ UNCHANGED <<enableValidationLayers, objVars, dataVars, miscVars, selVars, callVars, infoVars>>

getRequiredExtensions ==
  IF enableValidationLayers
  THEN Append(glfwGetRequiredInstanceExtensions, "VK_EXT_debug_utils")
  ELSE glfwGetRequiredInstanceExtensions

createQueueCreateInfos ==
  LET uniqueQueueFamilyIndices ==
        {queueFamilyIndices.graphicsFamily.value, queueFamilyIndices.presentFamily.value}
  IN  {[queueFamilyIndex |-> x, queueCount |-> 1] : x \in uniqueQueueFamilyIndices}

(***************************************************************************)
(* run(), initWindow(), initVulkan().                                      *)
(***************************************************************************)
Run == Plain("run")

InitWindow ==
  /\ pc = "initWindow"
  /\ Create(Obj("window", 0))
  /\ Advance("initWindow")
  /\ UNCHANGED <<enableValidationLayers, dataVars, miscVars, selVars, callVars, infoVars>>

InitVulkan == Plain("initVulkan")

LoadGlobalFunctions ==
  /\ pc = "loadGlobalFunctions"
  /\ \E ok \in BOOLEAN :
       IF ok THEN Advance("loadGlobalFunctions")
             ELSE Throw("loadGlobalFunctions", "couldn't load global vulkan functions")
  /\ UNCHANGED <<enableValidationLayers, objVars, dataVars, miscVars, selVars, callVars, infoVars>>

\* variant: the supported layers are not looked at
CreateInstance_NoLayerCheck ==
  /\ pc = "createInstance"
  /\ \E supportedExtensions \in InstanceExtensionLists,
        availableLayers \in InstanceLayerLists, ok \in BOOLEAN :
       /\ instanceCheckFailed' =
            ( \/ ~(Range(getRequiredExtensions) \subseteq Range(supportedExtensions))
              \/ /\ enableValidationLayers
                 /\ ~(Range(validationLayers) \subseteq Range(availableLayers)) )
       /\ IF ~checkExtensionSupport(getRequiredExtensions, supportedExtensions)
          THEN /\ Throw("createInstance", "some requested extensions are not supported")
               /\ UNCHANGED objVars
          ELSE IF ~ok
          THEN /\ Throw("createInstance", "failed to create VkInstance")
               /\ UNCHANGED objVars
          ELSE /\ Create(Obj("instance", 0))
               /\ Advance("createInstance")
  /\ UNCHANGED <<enableValidationLayers, dataVars, miscVars, selVars, callVars,
                 swapChainCreateInfo>>

\* instanceCheckFailed records what the runtime answered: whether a required
\* extension, or with validation enabled a requested layer, is not among the
\* names it supports
CreateInstance ==
  /\ pc = "createInstance"
  /\ \E supportedExtensions \in InstanceExtensionLists,
        availableLayers \in InstanceLayerLists, ok \in BOOLEAN :
       /\ instanceCheckFailed' =
            ( \/ ~(Range(getRequiredExtensions) \subseteq Range(supportedExtensions))
              \/ /\ enableValidationLayers
                 /\ ~(Range(validationLayers) \subseteq Range(availableLayers)) )
       /\ IF ~checkExtensionSupport(getRequiredExtensions, supportedExtensions)
          THEN /\ Throw("createInstance", "some requested extensions are not supported")
               /\ UNCHANGED objVars
          ELSE IF enableValidationLayers /\ ~checkValidationLayerSupport(availableLayers)
          THEN /\ Throw("createInstance", "some requested validation layers are not supported")
               /\ UNCHANGED objVars
          ELSE IF ~ok
          THEN /\ Throw("createInstance", "failed to create VkInstance")
               /\ UNCHANGED objVars
          ELSE /\ Create(Obj("instance", 0))
               /\ Advance("createInstance")
  /\ UNCHANGED <<enableValidationLayers, dataVars, miscVars, selVars, callVars,
                 swapChainCreateInfo>>

LoadInstanceFunctions == Plain("loadInstanceFunctions")

SetupDebugMessenger ==
  /\ pc = "setupDebugMessenger"
  /\ IF ~enableValidationLayers
     THEN Advance("setupDebugMessenger") /\ UNCHANGED objVars
     ELSE \E ok \in BOOLEAN :
            IF ok THEN Create(Obj("debugMessenger", 0)) /\ Advance("setupDebugMessenger")
                  ELSE /\ Throw("setupDebugMessenger", "cannot setup debug messenger")
                       /\ UNCHANGED objVars
  /\ UNCHANGED <<enableValidationLayers, dataVars, miscVars, selVars, callVars, infoVars>>

CreateSurface ==
  CreateOrThrow("createSurface", Obj("surface", 0), "cannot create window surface")

PickPhysicalDevice ==
  /\ pc = "pickPhysicalDevice"
  /\ \E enumerated \in DeviceLists :
       LET r == pickPhysicalDevice(enumerated)
       IN  IF r.thrown
           THEN Throw("pickPhysicalDevice", r.what) /\ UNCHANGED physicalDevice
           ELSE /\ physicalDevice' = enumerated[r.value + 1]
                /\ Advance("pickPhysicalDevice")
  /\ UNCHANGED <<enableValidationLayers, objVars, queueFamilyIndices, queueCreateInfos,
                 swapChainImages, swapChainImageViews, framebuffers, miscVars, selVars, callVars, infoVars>>

CacheQueueFamilyIndices ==
  /\ pc = "cacheQueueFamilyIndices"
  /\ queueFamilyIndices' = findQueueFamilies(physicalDevice)
  /\ Advance("cacheQueueFamilyIndices")
  /\ UNCHANGED <<enableValidationLayers, objVars, physicalDevice, queueCreateInfos,
                 swapChainImages, swapChainImageViews, framebuffers, miscVars, selVars, callVars, infoVars>>

\* std::optional::value() throws std::bad_optional_access on an empty optional
CreateLogicalDevice ==
  /\ pc = "createLogicalDevice"
  /\ IF ~(queueFamilyIndices.graphicsFamily.has_value
          /\ queueFamilyIndices.presentFamily.has_value)
     THEN /\ Throw("createLogicalDevice", "bad optional access")
          /\ UNCHANGED <<objVars, queueCreateInfos>>
     ELSE /\ queueCreateInfos' = createQueueCreateInfos
          /\ \E ok \in BOOLEAN :
               IF ok THEN Create(Obj("device", 0)) /\ Advance("createLogicalDevice")
                     ELSE /\ Throw("createLogicalDevice", "failed to create logical device")
                          /\ UNCHANGED objVars
  /\ UNCHANGED <<enableValidationLayers, physicalDevice, queueFamilyIndices,
                 swapChainImages, swapChainImageViews, framebuffers, miscVars, selVars, callVars, infoVars>>

RetrieveQueueHandles == Plain("retrieveQueueHandles")

LoadDeviceFunctions == Plain("loadDeviceFunctions")

\* variant: the images are never shared between queue families
imageSharing_AlwaysExclusive ==
  [imageSharingMode |-> "VK_SHARING_MODE_EXCLUSIVE", queueFamilyIndexCount |-> 0,
   pQueueFamilyIndices |-> <<>>]

\* the sharing fields of createInfo; the else branch leaves the count and the
\* pointer as createInfo{} initialised them
imageSharing ==
  IF queueFamilyIndices.graphicsFamily # queueFamilyIndices.presentFamily
  THEN [imageSharingMode |-> "VK_SHARING_MODE_CONCURRENT", queueFamilyIndexCount |-> 2,
        pQueueFamilyIndices |-> <<queueFamilyIndices.graphicsFamily.value,
                                  queueFamilyIndices.presentFamily.value>>]
  ELSE [imageSharingMode |-> "VK_SHARING_MODE_EXCLUSIVE", queueFamilyIndexCount |-> 0,
        pQueueFamilyIndices |-> <<>>]

\* the fields of createInfo fixed by the chosen device and the cached indices;
\* minImageCount and imageExtent follow from the surface capabilities alone, by
\* swapChainImageCount and chooseSwapExtent
createInfo ==
  LET surfaceFormat == chooseSwapSurfaceFormat(querySwapChainSupport(physicalDevice).formats)
      presentMode == chooseSwapPresentMode(querySwapChainSupport(physicalDevice).presentModes)
  IN  [imageFormat |-> surfaceFormat.format,
       imageColorSpace |-> surfaceFormat.colorSpace,
       presentMode |-> presentMode,
       imageSharingMode |-> imageSharing.imageSharingMode,
       queueFamilyIndexCount |-> imageSharing.queueFamilyIndexCount,
       pQueueFamilyIndices |-> imageSharing.pQueueFamilyIndices]

CreateSwapChain ==
  /\ pc = "createSwapChain"
  /\ swapChainCreateInfo' = createInfo
  /\ \E ok \in BOOLEAN :
       IF ok THEN Create(Obj("swapChain", 0)) /\ Advance("createSwapChain")
             ELSE Throw("createSwapChain", "failed to create swapchain") /\ UNCHANGED objVars
  /\ UNCHANGED <<enableValidationLayers, dataVars, miscVars, selVars, callVars,
                 instanceCheckFailed>>

RetrieveSwapChainImageHandles ==
  /\ pc = "retrieveSwapChainImageHandles"
  /\ \E imageCount \in 1..MaxImages :
       swapChainImages' = [k \in 1..imageCount |-> Obj("image", k - 1)]
  /\ Advance("retrieveSwapChainImageHandles")
  /\ UNCHANGED <<enableValidationLayers, objVars, physicalDevice, queueFamilyIndices,
                 queueCreateInfos, swapChainImageViews, framebuffers, miscVars, selVars, callVars, infoVars>>

\* one turn of the loop of createSwapChainImageViews, or its end
CreateSwapChainImageViews ==
  /\ pc = "createSwapChainImageViews"
  /\ IF i < Len(swapChainImages)
     THEN \E ok \in BOOLEAN :
            IF ok
            THEN /\ Create(Obj("imageView", i))
                 /\ swapChainImageViews' = Append(swapChainImageViews, Obj("imageView", i))
                 /\ i' = i + 1
                 /\ UNCHANGED <<pc, stages, error, failed, exitStatus>>
            ELSE /\ Throw("createSwapChainImageViews", "failed to create image view")
                 /\ UNCHANGED <<objVars, swapChainImageViews, i>>
     ELSE /\ Advance("createSwapChainImageViews")
          /\ i' = 0
          /\ UNCHANGED <<objVars, swapChainImageViews>>
  /\ UNCHANGED <<enableValidationLayers, physicalDevice, queueFamilyIndices,
                 queueCreateInfos, swapChainImages, framebuffers, mainLoopEntered,
                 cleanupCalls, selVars, callVars, infoVars>>

CreateRenderPass ==
  CreateOrThrow("createRenderPass", Obj("renderPass", 0), "failed to create render pass")

(***************************************************************************)
(* createGraphicsPipeline().                                               *)
(***************************************************************************)
VERTEX_SHADER == Obj("shaderModule", 0)
FRAGMENT_SHADER == Obj("shaderModule", 1)

CreateGraphicsPipeline == Plain("createGraphicsPipeline")

ReadFile(s) ==
  /\ pc = s
  /\ \E opened \in BOOLEAN :
       IF opened THEN Advance(s) ELSE Throw(s, "failed to open file")
  /\ UNCHANGED <<enableValidationLayers, objVars, dataVars, miscVars, selVars, callVars, infoVars>>

ReadVertexShader == ReadFile("readFile_vert")

CreateVertexShaderModule ==
  CreateOrThrow("createShaderModule_vert", VERTEX_SHADER, "failed to create shader module")

ReadFragmentShader == ReadFile("readFile_frag")

CreateFragmentShaderModule ==
  CreateOrThrow("createShaderModule_frag", FRAGMENT_SHADER, "failed to create shader module")

CreatePipelineLayout ==
  CreateOrThrow("createPipelineLayout", Obj("pipelineLayout", 0),
                "failed to create pipeline layout")

\* on failure the block of the if statement is entered
VkCreateGraphicsPipelines ==
  /\ pc = "vkCreateGraphicsPipelines"
  /\ \E ok \in BOOLEAN :
       IF ok
       THEN Create(Obj("graphicsPipeline", 0)) /\ Advance("vkCreateGraphicsPipelines")
       ELSE /\ pc' = Head(pipelineFailureBody)
            /\ stages' = Append(stages, "vkCreateGraphicsPipelines")
            /\ UNCHANGED <<objVars, error, failed, exitStatus>>
  /\ UNCHANGED <<enableValidationLayers, dataVars, miscVars, selVars, callVars, infoVars>>

DestroyVertexShaderModule == DestroyOne("vkDestroyShaderModule_vert", VERTEX_SHADER)

DestroyFragmentShaderModule == DestroyOne("vkDestroyShaderModule_frag", FRAGMENT_SHADER)

FailedDestroyVertexShaderModule ==
  DestroyOne("failed_vkDestroyShaderModule_vert", VERTEX_SHADER)

FailedDestroyFragmentShaderModule ==
  DestroyOne("failed_vkDestroyShaderModule_frag", FRAGMENT_SHADER)

FailedThrow ==
  /\ pc = "failed_throw"
  /\ Throw("failed_throw", "failed to create graphics pipeline")
  /\ UNCHANGED <<enableValidationLayers, objVars, dataVars, miscVars, selVars, callVars, infoVars>>

(***************************************************************************)
(* createFramebuffers(), mainLoop().                                       *)
(***************************************************************************)
\* framebuffers.resize(swapChainImageViews.size(), VK_NULL_HANDLE), then one
\* turn of the loop, or its end
CreateFramebuffers ==
  /\ pc = "createFramebuffers"
  /\ LET resized == IF i = 0
                    THEN [k \in 1..Len(swapChainImageViews) |-> NULL_HANDLE]
                    ELSE framebuffers
     IN  IF i < Len(resized)
         THEN \E ok \in BOOLEAN :
                IF ok
                THEN /\ Create(Obj("framebuffer", i))
                     /\ framebuffers' = [resized EXCEPT ![i + 1] = Obj("framebuffer", i)]
                     /\ i' = i + 1
                     /\ UNCHANGED <<pc, stages, error, failed, exitStatus>>
                ELSE /\ Throw("createFramebuffers", "failed to create frambuffer")
                     /\ framebuffers' = resized
                     /\ UNCHANGED <<objVars, i>>
         ELSE /\ Advance("createFramebuffers")
              /\ framebuffers' = resized
              /\ i' = 0
              /\ UNCHANGED objVars
  /\ UNCHANGED <<enableValidationLayers, physicalDevice, queueFamilyIndices,
                 queueCreateInfos, swapChainImages, swapChainImageViews,
                 mainLoopEntered, cleanupCalls, selVars, callVars, infoVars>>

\* glfwWindowShouldClose(window) is false: glfwPollEvents()
MainLoopPoll ==
  /\ pc = "mainLoop"
  /\ mainLoopEntered' = TRUE
  /\ UNCHANGED <<enableValidationLayers, objVars, dataVars, pc, i, stages, error,
                 failed, exitStatus, cleanupCalls, selVars, callVars, infoVars>>

\* glfwWindowShouldClose(window) is true
MainLoopClose ==
  /\ pc = "mainLoop"
  /\ mainLoopEntered' = TRUE
  /\ Advance("mainLoop")
  /\ UNCHANGED <<enableValidationLayers, objVars, dataVars, i, cleanupCalls, selVars, callVars, infoVars>>

(***************************************************************************)
(* cleanup().                                                              *)
(***************************************************************************)
Cleanup ==
  /\ pc = "cleanup"
  /\ cleanupCalls' = cleanupCalls + 1
  /\ Advance("cleanup")
  /\ UNCHANGED <<enableValidationLayers, objVars, dataVars, i, mainLoopEntered, selVars, callVars, infoVars>>

\* one turn of a range-for of destroy calls over handles, or its end
DestroyEach(s, handles) ==
  /\ pc = s
  /\ IF i < Len(handles)
     THEN /\ Destroy(handles[i + 1])
          /\ i' = i + 1
          /\ UNCHANGED <<pc, stages, error, failed, exitStatus>>
     ELSE /\ Advance(s)
          /\ i' = 0
          /\ UNCHANGED objVars
  /\ UNCHANGED <<enableValidationLayers, dataVars, mainLoopEntered, cleanupCalls, selVars, callVars, infoVars>>

DestroyFramebuffers == DestroyEach("vkDestroyFramebuffer", framebuffers)

DestroyPipeline == DestroyOne("vkDestroyPipeline", Obj("graphicsPipeline", 0))

DestroyPipelineLayout == DestroyOne("vkDestroyPipelineLayout", Obj("pipelineLayout", 0))

DestroyRenderPass == DestroyOne("vkDestroyRenderPass", Obj("renderPass", 0))

DestroyImageViews == DestroyEach("vkDestroyImageView", swapChainImageViews)

DestroySwapchain == DestroyOne("vkDestroySwapchainKHR", Obj("swapChain", 0))

DestroyDevice == DestroyOne("vkDestroyDevice", Obj("device", 0))

DestroyDebugMessenger ==
  /\ pc = "vkDestroyDebugUtilsMessengerEXT"
  /\ IF enableValidationLayers
     THEN Destroy(Obj("debugMessenger", 0))
     ELSE UNCHANGED objVars
  /\ Advance("vkDestroyDebugUtilsMessengerEXT")
  /\ UNCHANGED <<enableValidationLayers, dataVars, miscVars, selVars, callVars, infoVars>>

DestroySurface == DestroyOne("vkDestroySurfaceKHR", Obj("surface", 0))

DestroyInstance == DestroyOne("vkDestroyInstance", Obj("instance", 0))

\* glfwDestroyWindow(window); glfwTerminate();
DestroyWindow == DestroyOne("glfwDestroyWindow", Obj("window", 0))

(***************************************************************************)
(* main().                                                                 *)
(***************************************************************************)
MainReturn ==
  /\ pc = "return"
  /\ pc' = "exit"
  /\ exitStatus' = EXIT_SUCCESS
  /\ UNCHANGED <<enableValidationLayers, objVars, dataVars, i, stages, error, failed,
                 mainLoopEntered, cleanupCalls, selVars, callVars, infoVars>>

\* variant: the handler calls cleanup() before returning
MainCatch_Cleanup ==
  /\ pc = "catch"
  /\ pc' = "cleanup"
  /\ UNCHANGED <<enableValidationLayers, objVars, dataVars, i, stages, error, failed,
                 exitStatus, mainLoopEntered, cleanupCalls, selVars, callVars, infoVars>>

MainCatch ==
  /\ pc = "catch"
  /\ pc' = "exit"
  /\ exitStatus' = EXIT_FAILURE
  /\ UNCHANGED <<enableValidationLayers, objVars, dataVars, i, stages, error, failed,
                 mainLoopEntered, cleanupCalls, selVars, callVars, infoVars>>

(***************************************************************************)
(* The program.                                                            *)
(***************************************************************************)
InitRun ==
  /\ pc = "run"
  /\ i = 0
  /\ alive = {}
  /\ calls = <<>>
  /\ stages = <<>>
  /\ physicalDevice = NoDevice
  /\ queueFamilyIndices = NoQueueFamilyIndices
  /\ queueCreateInfos = {}
  /\ swapChainImages = <<>>
  /\ swapChainImageViews = <<>>
  /\ framebuffers = <<>>
  /\ error = ""
  /\ failed = ""
  /\ exitStatus = -1
  /\ mainLoopEntered = FALSE
  /\ cleanupCalls = 0
  /\ instanceCheckFailed = FALSE
  /\ swapChainCreateInfo = NoCreateInfo

Init ==
  /\ enableValidationLayers \in BOOLEAN
  /\ InitRun
  /\ physicalDevices = <<>>
  /\ scores = <<>>
  /\ picked = NotPicked
  /\ call = NotCalled
  /\ returned = NotReturned

Next ==
  \/ Run \/ InitWindow \/ InitVulkan \/ LoadGlobalFunctions \/ CreateInstance
  \/ LoadInstanceFunctions \/ SetupDebugMessenger \/ CreateSurface
  \/ PickPhysicalDevice \/ CacheQueueFamilyIndices \/ CreateLogicalDevice
  \/ RetrieveQueueHandles \/ LoadDeviceFunctions \/ CreateSwapChain
  \/ RetrieveSwapChainImageHandles \/ CreateSwapChainImageViews \/ CreateRenderPass
  \/ CreateGraphicsPipeline \/ ReadVertexShader \/ CreateVertexShaderModule
  \/ ReadFragmentShader \/ CreateFragmentShaderModule \/ CreatePipelineLayout
  \/ VkCreateGraphicsPipelines \/ DestroyVertexShaderModule
  \/ DestroyFragmentShaderModule \/ FailedDestroyVertexShaderModule
  \/ FailedDestroyFragmentShaderModule \/ FailedThrow
  \/ CreateFramebuffers \/ MainLoopPoll \/ MainLoopClose
  \/ Cleanup \/ DestroyFramebuffers \/ DestroyPipeline \/ DestroyPipelineLayout
  \/ DestroyRenderPass \/ DestroyImageViews \/ DestroySwapchain \/ DestroyDevice
  \/ DestroyDebugMessenger \/ DestroySurface \/ DestroyInstance \/ DestroyWindow
  \/ MainReturn \/ MainCatch

Spec == Init /\ [][Next]_vars

(***************************************************************************)
(* Device selection on its own: pickPhysicalDevice() applied to every list *)
(* of devices the driver may enumerate.                                    *)
(***************************************************************************)
InitSelect ==
  /\ enableValidationLayers = TRUE
  /\ InitRun
  /\ physicalDevices \in DeviceLists
  /\ scores = <<>>
  /\ picked = NotPicked
  /\ call = NotCalled
  /\ returned = NotReturned

SelectDevice ==
  /\ picked = NotPicked
  /\ scores' = [k \in 1..Len(physicalDevices) |->
                  calculatePhysicalDeviceScore(physicalDevices[k])]
  /\ picked' = pickPhysicalDevice(physicalDevices)
  /\ picked'.thrown = FALSE
  /\ UNCHANGED <<enableValidationLayers, objVars, dataVars, ctlVars, physicalDevices,
                 callVars, infoVars>>

SelectDeviceThrows ==
  /\ picked = NotPicked
  /\ scores' = [k \in 1..Len(physicalDevices) |->
                  calculatePhysicalDeviceScore(physicalDevices[k])]
  /\ picked' = pickPhysicalDevice(physicalDevices)
  /\ picked'.thrown = TRUE
  /\ UNCHANGED <<enableValidationLayers, objVars, dataVars, ctlVars, physicalDevices,
                 callVars, infoVars>>

NextSelect == SelectDevice \/ SelectDeviceThrows

SpecSelect == InitSelect /\ [][NextSelect]_vars

(***************************************************************************)
(* Functions called on their own, each on every argument of a bounded set. *)
(***************************************************************************)
AllQueueFlags == 1..(2 * VK_QUEUE.SPARSE_BINDING_BIT - 1)

CapabilityBits ==
  {VK_QUEUE.GRAPHICS_BIT, VK_QUEUE.COMPUTE_BIT, VK_QUEUE.TRANSFER_BIT,
   VK_QUEUE.SPARSE_BINDING_BIT}

QueueFamilyCalls ==
  {[fn |-> "findQueueFamilyWithCapability", queueFamilies |-> q, capability |-> c] :
     q \in SeqsUpTo({[queueFlags |-> f] : f \in AllQueueFlags}, MaxFamilies),
     c \in CapabilityBits}

SurfaceFormatChoices ==
  {[format |-> f, colorSpace |-> c] :
     f \in {"VK_FORMAT_B8G8R8_UNORM", "VK_FORMAT_B8G8R8A8_SRGB", "VK_FORMAT_R8G8B8A8_UNORM"},
     c \in {"VK_COLOR_SPACE_SRGB_NONLINEAR_KHR", "VK_COLOR_SPACE_EXTENDED_SRGB_LINEAR_EXT"}}

SurfaceFormatCalls ==
  {[fn |-> "chooseSwapSurfaceFormat", availableFormats |-> a] :
     a \in SeqsUpTo(SurfaceFormatChoices, MaxFormats) \ {<<>>}}

PresentModeChoices ==
  {"VK_PRESENT_MODE_IMMEDIATE_KHR", "VK_PRESENT_MODE_MAILBOX_KHR",
   "VK_PRESENT_MODE_FIFO_KHR", "VK_PRESENT_MODE_FIFO_RELAXED_KHR"}

PresentModeCalls ==
  {[fn |-> "chooseSwapPresentMode", availablePresentModes |-> a] :
     a \in SeqsUpTo(PresentModeChoices, MaxModes)}

\* widths and heights a surface may report
ExtentSizes ==
  {uint32_t(1), uint32_t(HEIGHT), uint32_t(640), uint32_t(WIDTH), uint32_t(1024),
   uint32_t(4096)}

ExtentRanges == {r \in ExtentSizes \X ExtentSizes : r[1] = r[2] \/ U32Less(r[1], r[2])}

CurrentExtentChoices ==
  {[width |-> w, height |-> h] :
     w \in {UINT32_MAX, uint32_t(WIDTH), uint32_t(1024)},
     h \in {UINT32_MAX, uint32_t(HEIGHT), uint32_t(768)}}

SwapExtentCalls ==
  {[fn |-> "chooseSwapExtent",
    capabilities |->
      [currentExtent  |-> c,
       minImageExtent |-> [width |-> w[1], height |-> h[1]],
       maxImageExtent |-> [width |-> w[2], height |-> h[2]]]] :
     c \in CurrentExtentChoices, w \in ExtentRanges, h \in ExtentRanges}

\* image counts a surface may report, the ends of the 32-bit range included
ImageCountChoices ==
  {uint32_t(1), uint32_t(2), uint32_t(3), uint32_t(HalfWord - 1),
   [hi |-> HalfWord - 1, lo |-> HalfWord - 2], UINT32_MAX}

\* maxImageCount is 0 (no limit) or at least minImageCount
ImageCountCalls ==
  {[fn |-> "swapChainImageCount", capabilities |-> [minImageCount |-> lo, maxImageCount |-> hi]] :
     lo \in ImageCountChoices,
     hi \in ImageCountChoices \cup {uint32_t(0)}}

ExtensionNameChoices == {"VK_KHR_surface", "vk_khr_surface", "VK_KHR_swapchain"}

ExtensionSupportCalls ==
  {[fn |-> "checkExtensionSupport", extensions |-> e, availableExtensions |-> a] :
     e \in SeqsUpTo(ExtensionNameChoices, MaxNames),
     a \in SeqsUpTo(ExtensionNameChoices, MaxNames)}

LayerNameChoices ==
  {"VK_LAYER_KHRONOS_validation", "vk_layer_khronos_validation", "VK_LAYER_LUNARG_api_dump"}

LayerSupportCalls ==
  {[fn |-> "checkValidationLayerSupport", availableLayers |-> a] :
     a \in SeqsUpTo(LayerNameChoices, MaxNames)}

InitCall ==
  /\ enableValidationLayers = TRUE
  /\ InitRun
  /\ physicalDevices = <<>>
  /\ scores = <<>>
  /\ picked = NotPicked
  /\ returned = NotReturned
  /\ \/ call \in QueueFamilyCalls
     \/ call \in SurfaceFormatCalls
     \/ call \in PresentModeCalls
     \/ call \in SwapExtentCalls
     \/ call \in ExtensionSupportCalls
     \/ call \in LayerSupportCalls
     \/ /\ call \in ImageCountCalls
        /\ \/ call.capabilities.maxImageCount = uint32_t(0)
           \/ ~U32Less(call.capabilities.maxImageCount, call.capabilities.minImageCount)

FindQueueFamilyWithCapability ==
  /\ call.fn = "findQueueFamilyWithCapability"
  /\ ~HasReturned
  /\ returned' = Returned(findQueueFamilyWithCapability(call.queueFamilies, call.capability))
  /\ UNCHANGED <<enableValidationLayers, objVars, dataVars, ctlVars, selVars, call,
                 infoVars>>

ChooseSwapSurfaceFormat ==
  /\ call.fn = "chooseSwapSurfaceFormat"
  /\ ~HasReturned
  /\ returned' = Returned(chooseSwapSurfaceFormat(call.availableFormats))
  /\ UNCHANGED <<enableValidationLayers, objVars, dataVars, ctlVars, selVars, call,
                 infoVars>>

ChooseSwapPresentMode ==
  /\ call.fn = "chooseSwapPresentMode"
  /\ ~HasReturned
  /\ returned' = Returned(chooseSwapPresentMode(call.availablePresentModes))
  /\ UNCHANGED <<enableValidationLayers, objVars, dataVars, ctlVars, selVars, call,
                 infoVars>>

ChooseSwapExtent ==
  /\ call.fn = "chooseSwapExtent"
  /\ ~HasReturned
  /\ returned' = Returned(chooseSwapExtent(call.capabilities))
  /\ UNCHANGED <<enableValidationLayers, objVars, dataVars, ctlVars, selVars, call,
                 infoVars>>

SwapChainImageCount ==
  /\ call.fn = "swapChainImageCount"
  /\ ~HasReturned
  /\ returned' = Returned(swapChainImageCount(call.capabilities))
  /\ UNCHANGED <<enableValidationLayers, objVars, dataVars, ctlVars, selVars, call,
                 infoVars>>

CheckExtensionSupport ==
  /\ call.fn = "checkExtensionSupport"
  /\ ~HasReturned
  /\ returned' = Returned(checkExtensionSupport(call.extensions, call.availableExtensions))
  /\ UNCHANGED <<enableValidationLayers, objVars, dataVars, ctlVars, selVars, call,
                 infoVars>>

CheckValidationLayerSupport ==
  /\ call.fn = "checkValidationLayerSupport"
  /\ ~HasReturned
  /\ returned' = Returned(checkValidationLayerSupport(call.availableLayers))
  /\ UNCHANGED <<enableValidationLayers, objVars, dataVars, ctlVars, selVars, call,
                 infoVars>>

NextCall ==
  \/ FindQueueFamilyWithCapability
  \/ ChooseSwapSurfaceFormat
  \/ ChooseSwapPresentMode
  \/ ChooseSwapExtent
  \/ SwapChainImageCount
  \/ CheckExtensionSupport
  \/ CheckValidationLayerSupport

SpecCall == InitCall /\ [][NextCall]_vars

(***************************************************************************)
(* What the claims speak of, read off the recorded calls.                  *)
(***************************************************************************)
ObjSeq(cs) == [k \in 1..Len(cs) |-> cs[k].obj]
KindSeq(objs) == [k \in 1..Len(objs) |-> objs[k].kind]
Repeat(x, n) == [k \in 1..n |-> x]
IsInjective(s) == \A a, b \in 1..Len(s) : s[a] = s[b] => a = b
PositionIn(s, x) == CHOOSE k \in 1..Len(s) : s[k] = x

\* the objects that stay after the stage that made them: all but shader modules
Constructed ==
  ObjSeq(SelectSeq(calls, LAMBDA c : c.op = "create" /\ c.obj.kind # "shaderModule"))

Destroyed ==
  ObjSeq(SelectSeq(calls, LAMBDA c : c.op = "destroy" /\ c.obj.kind # "shaderModule"))

ShaderModulesAlive == {o \in alive : o.kind = "shaderModule"}

\* run() has returned to main without an exception
RunReturned == pc \in {"return", "exit"} /\ failed = ""

\* the objects whose handles the creation call of o takes
CreatedFrom(o) ==
  CASE o.kind = "surface" -> {Obj("instance", 0), Obj("window", 0)}
    [] o.kind = "debugMessenger" -> {Obj("instance", 0)}
    [] o.kind = "device" -> {Obj("instance", 0)}
    [] o.kind = "swapChain" -> {Obj("device", 0), Obj("surface", 0)}
    [] o.kind = "imageView" -> {Obj("device", 0), Obj("swapChain", 0)}
    [] o.kind = "renderPass" -> {Obj("device", 0)}
    [] o.kind = "shaderModule" -> {Obj("device", 0)}
    [] o.kind = "pipelineLayout" -> {Obj("device", 0)}
    [] o.kind = "graphicsPipeline" ->
         {Obj("device", 0), Obj("renderPass", 0), Obj("pipelineLayout", 0)}
    [] o.kind = "framebuffer" ->
         {Obj("device", 0), Obj("renderPass", 0), Obj("imageView", o.idx)}
    [] OTHER -> {}

(***************************************************************************)
(* C1: after a successful bootstrap and the end of the main loop, cleanup() *)
(* is invoked exactly once and destroys, in this order: all framebuffers,  *)
(* the pipeline, the pipeline layout, the render pass, all image views,    *)
(* the swapchain, the logical device, the debug messenger (only with       *)
(* validation layers enabled), the surface, the instance, the window.      *)
(* Until cleanup() is invoked none of them is destroyed.                   *)
(***************************************************************************)
TeardownKinds ==
  Repeat("framebuffer", Len(swapChainImages))
    \o <<"graphicsPipeline", "pipelineLayout", "renderPass">>
    \o Repeat("imageView", Len(swapChainImages))
    \o <<"swapChain", "device">>
    \o (IF enableValidationLayers THEN <<"debugMessenger">> ELSE <<>>)
    \o <<"surface", "instance", "window">>

C1_CleanupOnceInOrder ==
  /\ cleanupCalls <= 1
  /\ cleanupCalls = 0 => Destroyed = <<>>
  /\ RunReturned =>
       /\ cleanupCalls = 1
       /\ KindSeq(Destroyed) = TeardownKinds
       /\ IsInjective(Destroyed)
       /\ Range(Destroyed) = Range(Constructed)

C1_Witness ==
  /\ pc = "exit"
  /\ exitStatus = EXIT_SUCCESS
  /\ enableValidationLayers
  /\ Len(framebuffers) >= 2
  /\ alive = {}

(***************************************************************************)
(* C2, as stated: for a successful full bootstrap the sequence of objects  *)
(* destroyed by cleanup() is the exact reverse of the sequence of objects  *)
(* constructed by initWindow() and initVulkan().                           *)
(***************************************************************************)
C2_ExactReverse == RunReturned => Destroyed = Reverse(Constructed)

(***************************************************************************)
(* C2, amended: cleanup() destroys every constructed object exactly once,  *)
(* and any two of them in the reverse of the order of their construction,  *)
(* except that two image views, two framebuffers, and the debug messenger  *)
(* and the surface, are destroyed in the order of their construction.      *)
(***************************************************************************)
KeepsConstructionOrder(a, b) ==
  \/ a.kind = b.kind
  \/ {a.kind, b.kind} = {"debugMessenger", "surface"}

C2_ReverseButSiblings ==
  RunReturned =>
    /\ IsInjective(Constructed)
    /\ IsInjective(Destroyed)
    /\ Range(Destroyed) = Range(Constructed)
    /\ \A a, b \in Range(Constructed) :
         PositionIn(Constructed, a) < PositionIn(Constructed, b) =>
           IF KeepsConstructionOrder(a, b)
           THEN PositionIn(Destroyed, a) < PositionIn(Destroyed, b)
           ELSE PositionIn(Destroyed, b) < PositionIn(Destroyed, a)

C2_Witness ==
  /\ RunReturned
  /\ enableValidationLayers
  /\ Len(swapChainImageViews) >= 2
  /\ Len(Destroyed) = Len(Constructed)
  /\ Destroyed # Reverse(Constructed)

(***************************************************************************)
(* C3: in every state of every run, no object has been destroyed while an  *)
(* object constructed from it is alive: whatever is alive was created from *)
(* objects that are all still alive.                                       *)
(***************************************************************************)
C3_NoDestroyBeforeDependents == \A o \in alive : CreatedFrom(o) \subseteq alive

C3_Witness ==
  /\ pc = "vkDestroyDebugUtilsMessengerEXT"
  /\ Obj("device", 0) \notin alive
  /\ Obj("device", 0) \in Range(Destroyed)
  /\ {Obj("surface", 0), Obj("instance", 0), Obj("window", 0)} \subseteq alive

(***************************************************************************)
(* C4: when a bootstrap stage fails, the failure reaches main(): the       *)
(* failed statement is the last one executed and was executed once, the    *)
(* main loop is not entered, and main returns a nonzero status; main       *)
(* returns 0 only when run() returned normally after all its statements.   *)
(***************************************************************************)
TimesIn(s, x) == Cardinality({k \in 1..Len(s) : s[k] = x})

C4_FailurePropagates ==
  /\ failed # "" =>
       /\ pc \in {"catch", "exit"}
       /\ stages # <<>>
       /\ stages[Len(stages)] = failed
       /\ TimesIn(stages, failed) = 1
       /\ IsInjective(stages)
       /\ ~mainLoopEntered
       /\ pc = "exit" => exitStatus = EXIT_FAILURE /\ exitStatus # 0
  /\ pc = "exit" => exitStatus \in {EXIT_SUCCESS, EXIT_FAILURE}
  /\ pc # "exit" => exitStatus = -1
  /\ exitStatus = EXIT_SUCCESS =>
       /\ failed = ""
       /\ error = ""
       /\ mainLoopEntered
       /\ stages = SubSeq(Program, 1, Len(Program) - 1)

C4_Witness ==
  /\ pc = "exit"
  /\ failed = "createSwapChain"
  /\ exitStatus = EXIT_FAILURE
  /\ Obj("device", 0) \in alive

(***************************************************************************)
(* C5: when a construction stage fails after earlier stages succeeded,     *)
(* cleanup() is not invoked and none of the objects the earlier stages     *)
(* constructed is destroyed: all of them are still alive at exit.          *)
(***************************************************************************)
C5_NothingReleasedOnFailure ==
  failed # "" =>
    /\ cleanupCalls = 0
    /\ Destroyed = <<>>
    /\ Range(Constructed) \subseteq alive

C5_Witness ==
  /\ pc = "exit"
  /\ failed = "createFramebuffers"
  /\ Obj("framebuffer", 0) \in alive
  /\ Obj("window", 0) \in alive

(***************************************************************************)
(* C6: in createGraphicsPipeline() the two shader modules are destroyed    *)
(* right after the pipeline creation call returns: after a successful call *)
(* the next two calls destroy the vertex and the fragment module, and      *)
(* after a failed one they are destroyed, with no call in between, before  *)
(* the error is raised; once createGraphicsPipeline() is over no shader    *)
(* module is alive.                                                        *)
(***************************************************************************)
C6_ShaderModulesTransient ==
  /\ \A k \in 1..Len(calls) :
       calls[k] = [op |-> "create", obj |-> Obj("graphicsPipeline", 0)] =>
         /\ k + 1 <= Len(calls) => calls[k + 1] = [op |-> "destroy", obj |-> VERTEX_SHADER]
         /\ k + 2 <= Len(calls) => calls[k + 2] = [op |-> "destroy", obj |-> FRAGMENT_SHADER]
         /\ k + 2 > Len(calls) => pc \in Range(createGraphicsPipelineBody)
  /\ error = "failed to create graphics pipeline" =>
       /\ ShaderModulesAlive = {}
       /\ Len(calls) >= 3
       /\ calls[Len(calls) - 2] = [op |-> "create", obj |-> Obj("pipelineLayout", 0)]
       /\ calls[Len(calls) - 1] = [op |-> "destroy", obj |-> VERTEX_SHADER]
       /\ calls[Len(calls)] = [op |-> "destroy", obj |-> FRAGMENT_SHADER]
  /\ pc \in Range(Flatten(<<"createFramebuffers", "mainLoop", "cleanup">>)) \cup {"return"} =>
       ShaderModulesAlive = {}

C6_Witness ==
  /\ pc = "exit"
  /\ error = "failed to create graphics pipeline"
  /\ Obj("pipelineLayout", 0) \in alive
  /\ Obj("graphicsPipeline", 0) \notin alive

(***************************************************************************)
(* Device selection: what the claims speak of.                             *)
(***************************************************************************)
Selected == physicalDevices[picked.value + 1]

HasSwapchainExtension(d) == \E k \in 1..Len(d.extensions) : d.extensions[k] = "VK_KHR_swapchain"
HasGraphicsFamily(d) ==
  \E k \in 1..Len(d.queueFamilies) :
    (d.queueFamilies[k].queueFlags \div VK_QUEUE.GRAPHICS_BIT) % 2 = 1
HasPresentFamily(d) == \E k \in 1..Len(d.queueFamilies) : d.queueFamilies[k].presentSupport

\* every condition of the gate is met
GateMet(d) ==
  /\ HasGraphicsFamily(d)
  /\ HasPresentFamily(d)
  /\ HasSwapchainExtension(d)
  /\ d.formats # <<>>
  /\ d.presentModes # <<>>

(***************************************************************************)
(* C7: device selection never returns a candidate whose computed score is  *)
(* 0; it fails with "no suitable gpu found" when the list is not empty and *)
(* every candidate scores 0, with "failed to find gpu supporting vulkan"   *)
(* when the list is empty, and in no other case.                           *)
(***************************************************************************)
C7_NeverReturnsScoreZero ==
  picked # NotPicked =>
    /\ ~picked.thrown =>
         /\ picked.value + 1 \in 1..Len(physicalDevices)
         /\ scores[picked.value + 1] # 0
    /\ Len(physicalDevices) = 0 =>
         picked = Thrown("failed to find gpu supporting vulkan")
    /\ (Len(physicalDevices) > 0 /\ \A k \in 1..Len(scores) : scores[k] = 0) =>
         picked = Thrown("no suitable gpu found")
    /\ picked.thrown =>
         \/ Len(physicalDevices) = 0
         \/ \A k \in 1..Len(scores) : scores[k] = 0

C7_Witness ==
  /\ ~picked.thrown
  /\ picked # NotPicked
  /\ picked.value > 0
  /\ scores[1] = 0
  /\ scores[picked.value + 1] > 0

(***************************************************************************)
(* C8: for every list with at least one suitable discrete and at least one *)
(* suitable integrated candidate, whatever else it holds, the candidate    *)
(* returned is a discrete one.                                             *)
(***************************************************************************)
C8_DiscreteSelected ==
  ( /\ picked # NotPicked
    /\ \E k \in 1..Len(physicalDevices) :
         /\ GateMet(physicalDevices[k])
         /\ physicalDevices[k].deviceType = VK_PHYSICAL_DEVICE_TYPE.DISCRETE_GPU
    /\ \E k \in 1..Len(physicalDevices) :
         /\ GateMet(physicalDevices[k])
         /\ physicalDevices[k].deviceType = VK_PHYSICAL_DEVICE_TYPE.INTEGRATED_GPU )
  => /\ ~picked.thrown
     /\ Selected.deviceType = VK_PHYSICAL_DEVICE_TYPE.DISCRETE_GPU

(***************************************************************************)
(* C9: a candidate that passes the gate scores 1001 when its type is       *)
(* discrete GPU and 1 for every other type.                                *)
(***************************************************************************)
C9_BonusOnlyForDiscrete ==
  \A k \in 1..Len(scores) :
    GateMet(physicalDevices[k]) =>
      scores[k] = IF physicalDevices[k].deviceType = VK_PHYSICAL_DEVICE_TYPE.DISCRETE_GPU
                  THEN 1001 ELSE 1

(***************************************************************************)
(* C10: a candidate scores 0 if and only if a condition of the gate is     *)
(* unmet (no graphics family, no family presenting to the surface, no      *)
(* swapchain extension, no surface format, no present mode); a candidate   *)
(* meeting all of them scores at least 1 whatever its type.                *)
(***************************************************************************)
C10_ZeroIffGateUnmet ==
  \A k \in 1..Len(scores) :
    /\ scores[k] = 0 <=> ~GateMet(physicalDevices[k])
    /\ GateMet(physicalDevices[k]) => scores[k] >= 1
    /\ scores[k] >= 0

C10_Witness ==
  /\ Len(scores) = 1
  /\ scores[1] = 0
  /\ HasGraphicsFamily(physicalDevices[1])
  /\ HasPresentFamily(physicalDevices[1])
  /\ HasSwapchainExtension(physicalDevices[1])
  /\ physicalDevices[1].formats # <<>>
  /\ physicalDevices[1].presentModes = <<>>
  /\ physicalDevices[1].deviceType = VK_PHYSICAL_DEVICE_TYPE.DISCRETE_GPU

(***************************************************************************)
(* C11: when at least one candidate of the enumerated list scores above 0, *)
(* pickPhysicalDevice returns a candidate whose score is the maximum over  *)
(* the list and, among the candidates sharing that maximum, the one with   *)
(* the lowest enumeration index.                                           *)
(***************************************************************************)
C11_MaxScoreLowestIndex ==
  ( /\ picked # NotPicked
    /\ \E k \in 1..Len(scores) : scores[k] > 0 )
  => /\ ~picked.thrown
     /\ picked.value + 1 \in 1..Len(scores)
     /\ \A k \in 1..Len(scores) : scores[k] <= scores[picked.value + 1]
     /\ \A k \in 1..picked.value : scores[k] < scores[picked.value + 1]

C11_Witness ==
  /\ Len(scores) = 3
  /\ scores[1] < scores[2]
  /\ scores[2] = scores[3]
  /\ ~picked.thrown
  /\ picked.value = 1

(***************************************************************************)
(* C12: for every list of queue families and every requested capability    *)
(* bit, if some family's capability set equals the requested capability    *)
(* exactly, findQueueFamilyWithCapability returns the first such family,   *)
(* never one with a strict superset, wherever the families stand in the    *)
(* list; it returns no index if and only if no family holds the bit.       *)
(***************************************************************************)
HoldsBit(family, capability) == (family.queueFlags \div capability) % 2 = 1

C12_ExactFamilyPreferred ==
  (call.fn = "findQueueFamilyWithCapability" /\ HasReturned) =>
    LET q == call.queueFamilies
        exact == {k \in 1..Len(q) : q[k].queueFlags = call.capability}
        holding == {k \in 1..Len(q) : HoldsBit(q[k], call.capability)}
        r == returned.value
    IN  /\ ~returned.thrown
        /\ ~r.has_value <=> holding = {}
        /\ r.has_value => r.value + 1 \in holding
        /\ exact # {} => /\ r.has_value
                         /\ r.value + 1 \in exact
                         /\ \A k \in exact : r.value + 1 <= k

C12_Witness ==
  /\ call.fn = "findQueueFamilyWithCapability"
  /\ call.capability = VK_QUEUE.TRANSFER_BIT
  /\ Len(call.queueFamilies) = 2
  /\ call.queueFamilies[1].queueFlags = GeneralPurposeFlags
  /\ call.queueFamilies[2].queueFlags = VK_QUEUE.TRANSFER_BIT
  /\ HasReturned
  /\ returned.value = Some(1)

(***************************************************************************)
(* C13: for every non-empty list of supported (format, color space) pairs, *)
(* chooseSwapSurfaceFormat returns the preferred pair (8-bit BGR, sRGB     *)
(* non-linear) whenever the list holds it, at whatever position, and the   *)
(* first entry of the list otherwise; the result is always an element of   *)
(* the list.                                                               *)
(***************************************************************************)
PreferredSurfaceFormat ==
  [format |-> "VK_FORMAT_B8G8R8_UNORM", colorSpace |-> "VK_COLOR_SPACE_SRGB_NONLINEAR_KHR"]

C13_PreferredFormatOrFirst ==
  (call.fn = "chooseSwapSurfaceFormat" /\ HasReturned) =>
    /\ ~returned.thrown
    /\ returned.value \in Range(call.availableFormats)
    /\ returned.value =
         IF PreferredSurfaceFormat \in Range(call.availableFormats)
         THEN PreferredSurfaceFormat
         ELSE call.availableFormats[1]

C13_Witness ==
  /\ call.fn = "chooseSwapSurfaceFormat"
  /\ HasReturned
  /\ Len(call.availableFormats) = 3
  /\ call.availableFormats[1] # PreferredSurfaceFormat
  /\ call.availableFormats[2] # PreferredSurfaceFormat
  /\ call.availableFormats[3] = PreferredSurfaceFormat
  /\ returned.value = PreferredSurfaceFormat

(***************************************************************************)
(* C14: for every list of supported present modes, chooseSwapPresentMode   *)
(* returns the mailbox mode if and only if the list holds it, and the FIFO *)
(* mode in every other case, whatever the order of the list.               *)
(***************************************************************************)
C14_MailboxIffListed ==
  (call.fn = "chooseSwapPresentMode" /\ HasReturned) =>
    /\ ~returned.thrown
    /\ returned.value = "VK_PRESENT_MODE_MAILBOX_KHR"
         <=> "VK_PRESENT_MODE_MAILBOX_KHR" \in Range(call.availablePresentModes)
    /\ returned.value # "VK_PRESENT_MODE_MAILBOX_KHR"
         => returned.value = "VK_PRESENT_MODE_FIFO_KHR"

C14_Witness ==
  /\ call.fn = "chooseSwapPresentMode"
  /\ HasReturned
  /\ call.availablePresentModes =
       <<"VK_PRESENT_MODE_IMMEDIATE_KHR", "VK_PRESENT_MODE_FIFO_KHR",
         "VK_PRESENT_MODE_MAILBOX_KHR">>
  /\ returned.value = "VK_PRESENT_MODE_MAILBOX_KHR"

(***************************************************************************)
(* C15: chooseSwapExtent, when the width of the surface's current extent   *)
(* is the undefined sentinel UINT32_MAX, returns (clamp(800, minWidth,     *)
(* maxWidth), clamp(600, minHeight, maxHeight)), hence exactly (800, 600)  *)
(* whenever 800 x 600 lies within [min, max]; when the current extent is   *)
(* defined it returns that extent unchanged, whatever the requested size   *)
(* and the min / max extents are.                                          *)
(***************************************************************************)
U32Within(v, lo, hi) == ~U32Less(v, lo) /\ ~U32Less(hi, v)

\* r is the value of [lo, hi] nearest to v
NearestWithin(r, v, lo, hi) ==
  /\ U32Within(r, lo, hi)
  /\ U32Within(v, lo, hi) => r = v
  /\ U32Less(v, lo) => r = lo
  /\ U32Less(hi, v) => r = hi

C15_ExtentClampedOrCurrent ==
  (call.fn = "chooseSwapExtent" /\ HasReturned) =>
    LET c == call.capabilities
        r == returned.value
    IN  /\ ~returned.thrown
        /\ c.currentExtent.width = UINT32_MAX =>
             /\ NearestWithin(r.width, uint32_t(800),
                              c.minImageExtent.width, c.maxImageExtent.width)
             /\ NearestWithin(r.height, uint32_t(600),
                              c.minImageExtent.height, c.maxImageExtent.height)
        /\ c.currentExtent.width # UINT32_MAX => r = c.currentExtent

C15_Witness ==
  /\ call.fn = "chooseSwapExtent"
  /\ HasReturned
  /\ call.capabilities.currentExtent.width = UINT32_MAX
  /\ call.capabilities.minImageExtent = [width |-> uint32_t(1024), height |-> uint32_t(1)]
  /\ call.capabilities.maxImageExtent = [width |-> uint32_t(4096), height |-> uint32_t(4096)]
  /\ returned.value = [width |-> uint32_t(1024), height |-> uint32_t(600)]

(***************************************************************************)
(* C16: the image count createSwapChain requests is minImageCount + 1,     *)
(* reduced to maxImageCount when maxImageCount is not 0 and minImageCount  *)
(* + 1 exceeds it, and left as it is when maxImageCount is 0 (min 2, max 0 *)
(* gives 3; min 2, max 2 gives 2); for every 32-bit minImageCount and      *)
(* maxImageCount with min <= max or max = 0 it is at least minImageCount.  *)
(***************************************************************************)
C16_ImageCountAtLeastMin ==
  (call.fn = "swapChainImageCount" /\ HasReturned) =>
    LET lo == call.capabilities.minImageCount
        hi == call.capabilities.maxImageCount
        r  == returned.value
    IN  /\ ~returned.thrown
        /\ ~U32Less(r, lo)
        /\ (hi # uint32_t(0) /\ hi = lo) => r = hi
        /\ (hi = uint32_t(0) \/ U32Less(lo, hi)) =>
             /\ lo # UINT32_MAX
             /\ r = U32Add(lo, uint32_t(1))

(***************************************************************************)
(* C17: the sharing mode createSwapChain chooses is exclusive exactly when *)
(* the cached graphics queue-family index equals the cached presentation   *)
(* queue-family index, and concurrent, listing both indices, exactly when  *)
(* they differ.                                                            *)
(***************************************************************************)
C17_SharingModeByFamilies ==
  swapChainCreateInfo.imageSharingMode # "unset" =>
    LET graphics == queueFamilyIndices.graphicsFamily.value
        present  == queueFamilyIndices.presentFamily.value
    IN  /\ queueFamilyIndices.graphicsFamily.has_value
        /\ queueFamilyIndices.presentFamily.has_value
        /\ swapChainCreateInfo.imageSharingMode = "VK_SHARING_MODE_EXCLUSIVE"
             <=> graphics = present
        /\ swapChainCreateInfo.imageSharingMode = "VK_SHARING_MODE_CONCURRENT"
             <=> graphics # present
        /\ graphics # present =>
             /\ swapChainCreateInfo.queueFamilyIndexCount = 2
             /\ swapChainCreateInfo.pQueueFamilyIndices = <<graphics, present>>

C17_Witness ==
  /\ Obj("swapChain", 0) \in alive
  /\ queueFamilyIndices.graphicsFamily = Some(0)
  /\ queueFamilyIndices.presentFamily = Some(1)
  /\ swapChainCreateInfo.imageSharingMode = "VK_SHARING_MODE_CONCURRENT"
  /\ swapChainCreateInfo.pQueueFamilyIndices = <<0, 1>>

(***************************************************************************)
(* C19: if a required instance extension is absent from the extensions the *)
(* runtime supports, or, with validation layers enabled, a requested       *)
(* validation layer is absent from the supported layers, createInstance    *)
(* fails before the driver call that creates the instance: in no run is    *)
(* the instance created after a failed validation check.                   *)
(***************************************************************************)
C19_NoInstanceAfterFailedCheck ==
  instanceCheckFailed =>
    /\ Obj("instance", 0) \notin Range(Constructed)
    /\ Obj("instance", 0) \notin alive
    /\ failed = "createInstance"
    /\ error \in {"some requested extensions are not supported",
                  "some requested validation layers are not supported"}
    /\ "loadInstanceFunctions" \notin Range(stages)

C19_Witness ==
  /\ instanceCheckFailed
  /\ enableValidationLayers
  /\ error = "some requested validation layers are not supported"
  /\ exitStatus = EXIT_FAILURE

(***************************************************************************)
(* C18: checkExtensionSupport (and checkValidationLayerSupport) returns    *)
(* true if and only if every required name equals, by case-sensitive exact *)
(* comparison, some name of the supported set, that is, the required set   *)
(* is a subset of the supported set; a single absent name makes it return  *)
(* false; and it changes no state of the application.                      *)
(***************************************************************************)
C18_TrueIffRequiredSubset ==
  /\ (call.fn = "checkExtensionSupport" /\ HasReturned) =>
       /\ ~returned.thrown
       /\ returned.value = (Range(call.extensions) \subseteq Range(call.availableExtensions))
       /\ InitRun
  /\ (call.fn = "checkValidationLayerSupport" /\ HasReturned) =>
       /\ ~returned.thrown
       /\ returned.value = (Range(validationLayers) \subseteq Range(call.availableLayers))
       /\ InitRun

C18_Witness ==
  /\ call.fn = "checkExtensionSupport"
  /\ HasReturned
  /\ call.extensions = <<"VK_KHR_swapchain", "VK_KHR_surface">>
  /\ call.availableExtensions = <<"vk_khr_surface", "VK_KHR_swapchain">>
  /\ returned.value = FALSE

(***************************************************************************)
(* C20: the bootstrap advances through the lifecycle chain Uninitialized,  *)
(* InstanceReady, SurfaceReady, DeviceReady, SwapchainReady,               *)
(* PipelineReady, FramebuffersReady one step at a time and only forward,   *)
(* never skipping or repeating a state: the surface is created before any  *)
(* device candidate is scored, the physical device is selected and its     *)
(* queue families cached before the logical device is created, the         *)
(* swapchain and its image views exist before the render pass, and the     *)
(* render pass and the pipeline exist before any framebuffer is created.   *)
(***************************************************************************)
LifecycleChain ==
  <<"Uninitialized", "InstanceReady", "SurfaceReady", "DeviceReady", "SwapchainReady",
    "PipelineReady", "FramebuffersReady">>

WasConstructed(kind) == \E k \in 1..Len(Constructed) : Constructed[k].kind = kind

AllFramebuffersConstructed ==
  /\ Len(swapChainImages) > 0
  /\ \A k \in 1..Len(swapChainImages) : Obj("framebuffer", k - 1) \in Range(Constructed)

\* position in LifecycleChain of the furthest state entered so far
Lifecycle ==
  IF AllFramebuffersConstructed THEN 7
  ELSE IF WasConstructed("graphicsPipeline") THEN 6
  ELSE IF WasConstructed("swapChain") THEN 5
  ELSE IF WasConstructed("device") THEN 4
  ELSE IF WasConstructed("surface") THEN 3
  ELSE IF WasConstructed("instance") THEN 2
  ELSE 1

LifecycleOrder ==
  /\ IsInjective(Constructed)
  /\ pc = "pickPhysicalDevice" => Obj("surface", 0) \in alive
  /\ physicalDevice # NoDevice => WasConstructed("surface")
  /\ WasConstructed("device") =>
       /\ physicalDevice # NoDevice
       /\ queueFamilyIndices = findQueueFamilies(physicalDevice)
       /\ \E a, b \in 1..Len(stages) :
            /\ a < b
            /\ stages[a] = "pickPhysicalDevice"
            /\ stages[b] = "cacheQueueFamilyIndices"
  /\ WasConstructed("renderPass") =>
       /\ WasConstructed("swapChain")
       /\ Len(swapChainImages) > 0
       /\ \A k \in 1..Len(swapChainImages) : Obj("imageView", k - 1) \in Range(Constructed)
  /\ WasConstructed("framebuffer") =>
       /\ WasConstructed("renderPass")
       /\ WasConstructed("graphicsPipeline")

LifecycleStep == Lifecycle' = Lifecycle \/ Lifecycle' = Lifecycle + 1

C20_LifecycleForwardOnly == []LifecycleOrder /\ [][LifecycleStep]_vars

C20_Witness ==
  /\ LifecycleChain[Lifecycle] = "FramebuffersReady"
  /\ pc = "mainLoop"
  /\ Len(swapChainImages) = 2

(***************************************************************************)
(* C21: on every exit from createGraphicsPipeline(), normal or by failure  *)
(* of any of its steps (reading the vertex or the fragment shader file,    *)
(* creating either shader module, creating the pipeline layout, creating   *)
(* the pipeline), every shader module created during the call has been     *)
(* destroyed: no shader module is leaked on any path.                      *)
(***************************************************************************)
InCreateGraphicsPipeline ==
  pc \in {"createGraphicsPipeline"} \cup Range(createGraphicsPipelineBody)
           \cup Range(pipelineFailureBody)

C21_NoShaderModuleLeak ==
  ("createGraphicsPipeline" \in Range(stages) /\ ~InCreateGraphicsPipeline) =>
    ShaderModulesAlive = {}

(***************************************************************************)
(* C22: for every device that has at least one queue family which both has *)
(* the graphics capability and can present to the surface,                 *)
(* findQueueFamilies resolves the graphics index and the presentation      *)
(* index to the same family, so the logical device requests a single queue *)
(* family and the swapchain uses exclusive sharing.                        *)
(***************************************************************************)
IndicesCached == "cacheQueueFamilyIndices" \in Range(stages)

HasGraphicsPresentFamily(d) ==
  \E k \in 1..Len(d.queueFamilies) :
    /\ HoldsBit(d.queueFamilies[k], VK_QUEUE.GRAPHICS_BIT)
    /\ d.queueFamilies[k].presentSupport

C22_SharedFamilyResolved ==
  (IndicesCached /\ HasGraphicsPresentFamily(physicalDevice)) =>
    /\ queueFamilyIndices.graphicsFamily = queueFamilyIndices.presentFamily
    /\ WasConstructed("device") => Cardinality(queueCreateInfos) = 1
    /\ swapChainCreateInfo.imageSharingMode # "unset" =>
         swapChainCreateInfo.imageSharingMode = "VK_SHARING_MODE_EXCLUSIVE"

(***************************************************************************)
(* C22, as the code has it: the two indices are resolved independently of  *)
(* each other, the graphics index to the first family whose capability set *)
(* is exactly graphics or else to the last family holding the graphics     *)
(* bit, the presentation index to the first family that can present; the   *)
(* logical device requests a single queue family and the swapchain uses    *)
(* exclusive sharing exactly when these two indices are equal, which a     *)
(* family serving both roles does not by itself ensure.                    *)
(***************************************************************************)
MinOf(S) == CHOOSE k \in S : \A j \in S : k <= j
MaxOf(S) == CHOOSE k \in S : \A j \in S : j <= k

GraphicsChoice(d) ==
  LET exact == {k \in 1..Len(d.queueFamilies) :
                  d.queueFamilies[k].queueFlags = VK_QUEUE.GRAPHICS_BIT}
      holding == {k \in 1..Len(d.queueFamilies) :
                    HoldsBit(d.queueFamilies[k], VK_QUEUE.GRAPHICS_BIT)}
  IN  IF exact # {} THEN MinOf(exact) ELSE MaxOf(holding)

PresentChoice(d) ==
  MinOf({k \in 1..Len(d.queueFamilies) : d.queueFamilies[k].presentSupport})

C22_IndicesResolvedIndependently ==
  IndicesCached =>
    LET g == GraphicsChoice(physicalDevice)
        p == PresentChoice(physicalDevice)
    IN  /\ queueFamilyIndices.graphicsFamily = Some(g - 1)
        /\ queueFamilyIndices.presentFamily = Some(p - 1)
        /\ WasConstructed("device") =>
             Cardinality(queueCreateInfos) = IF g = p THEN 1 ELSE 2
        /\ swapChainCreateInfo.imageSharingMode # "unset" =>
             (swapChainCreateInfo.imageSharingMode = "VK_SHARING_MODE_EXCLUSIVE" <=> g = p)

C22_Witness ==
  /\ IndicesCached
  /\ HasGraphicsPresentFamily(physicalDevice)
  /\ queueFamilyIndices.graphicsFamily # queueFamilyIndices.presentFamily
  /\ Cardinality(queueCreateInfos) = 2
  /\ swapChainCreateInfo.imageSharingMode = "VK_SHARING_MODE_CONCURRENT"

(***************************************************************************)
(* C23: in every run that reaches createLogicalDevice, retrieveQueueHandles *)
(* or createSwapChain, the cached queue-family indices hold a value for    *)
(* both the graphics family and the presentation family (the selected      *)
(* device passed the gate on the same queries), so reading them never      *)
(* fails; and the logical device is created with exactly one single-queue  *)
(* request per distinct index among the two: one request when they are     *)
(* equal, two when they differ.                                            *)
(***************************************************************************)
C23_IndicesPresentAndDeduplicated ==
  /\ pc \in {"createLogicalDevice", "retrieveQueueHandles", "createSwapChain"} =>
       /\ queueFamilyIndices = findQueueFamilies(physicalDevice)
       /\ queueFamilyIndices.graphicsFamily.has_value
       /\ queueFamilyIndices.presentFamily.has_value
  /\ error # "bad optional access"
  /\ "createLogicalDevice" \in Range(stages) =>
       LET graphics == queueFamilyIndices.graphicsFamily.value
           present  == queueFamilyIndices.presentFamily.value
       IN  /\ \A r \in queueCreateInfos :
                r.queueCount = 1 /\ r.queueFamilyIndex \in {graphics, present}
           /\ \A x \in {graphics, present} :
                Cardinality({r \in queueCreateInfos : r.queueFamilyIndex = x}) = 1
           /\ Cardinality(queueCreateInfos) = IF graphics = present THEN 1 ELSE 2

C23_Witness ==
  /\ pc = "retrieveQueueHandles"
  /\ Obj("device", 0) \in alive
  /\ queueFamilyIndices.graphicsFamily = Some(1)
  /\ queueFamilyIndices.presentFamily = Some(0)
  /\ queueCreateInfos =
       {[queueFamilyIndex |-> 0, queueCount |-> 1], [queueFamilyIndex |-> 1, queueCount |-> 1]}

====
